---- MODULE Spec2Model ----
(***************************************************************************)
(* Model of the command line worker (src/src/message.rs): the template     *)
(* compiler compile_command_template, the process launcher launch and the  *)
(* result mapping of process.                                              *)
(*                                                                         *)
(* Command lines, templates, keys and values are TLA+ strings.  The bytes  *)
(* a child process writes are run-length encoded (a sequence of runs       *)
(* [chunk, n]: the chunk repeated n times), so that the 1 MiB limit of     *)
(* process keeps its real value.                                           *)
(***************************************************************************)
EXTENDS Integers, Sequences, FiniteSets, TLC

VARIABLES
  jobs,          \* the invocations in progress (indexes of the jobs)
  params,        \* params[j]: the job's parameters (CommandLineWorkerParameters)
  os,            \* os[j]: what the operating system does with j's command
  pc,            \* pc[j]: where invocation j stands
  compiled,      \* compiled[j]: compiled_command_template
  pending,       \* pending[j]: keys param_map.iter() has still to yield
  visited,       \* visited[j]: keys param_map.iter() has yielded, in order
  spawns,        \* spawns[j]: calls of Command::output made by j
  child,         \* child[j]: j's child process: "none", "running", "exited"
  output,        \* output[j]: the std::process::Output collected by j
  launch_result, \* launch_result[j]: what launch returned
  job_result,    \* job_result[j]: the JobResult handed to process
  returned       \* returned[j]: what process returned

vars == <<jobs, params, os, pc, compiled, pending, visited, spawns, child,
          output, launch_result, job_result, returned>>

----------------------------------------------------------------------------
(* Bounds of the model.                                                    *)

MaxTemplateSegs == 3
MaxRuns == 2
NumJobs == 2

----------------------------------------------------------------------------
(* Strings.                                                                *)

COMMAND_TEMPLATE_IDENTIFIER == "command_template"
EXECUTION_DIRECTORY_PARAMETER == "exec_dir"

INTERNAL_PARAM_IDENTIFIERS ==
  {COMMAND_TEMPLATE_IDENTIFIER, EXECUTION_DIRECTORY_PARAMETER}

\* s[i..] starts with pat
MatchAt(s, pat, i) ==
  /\ i + Len(pat) - 1 <= Len(s)
  /\ SubSeq(s, i, i + Len(pat) - 1) = pat

RECURSIVE ReplaceFrom(_, _, _, _)
ReplaceFrom(s, from, to, i) ==
  LET found == {k \in i..Len(s) : MatchAt(s, from, k)}
  IN  IF found = {} THEN SubSeq(s, i, Len(s))
      ELSE LET k == CHOOSE k \in found : \A m \in found : k <= m
           IN  SubSeq(s, i, k - 1) \o to \o ReplaceFrom(s, from, to, k + Len(from))

\* str::replace: every non-overlapping match of from, left to right, becomes
\* to.  from is never empty here: it is always a placeholder.
Replace(s, from, to) == ReplaceFrom(s, from, to, 1)

\* format!("{{{}}}", key)
Placeholder(key) == "{" \o key \o "}"

RECURSIVE Split(_)
\* str::split(' '): the pieces between single spaces; one piece, the empty
\* string, for the empty string.
Split(s) ==
  LET spaces == {i \in 1..Len(s) : SubSeq(s, i, i) = " "}
  IN  IF spaces = {} THEN <<s>>
      ELSE LET i == CHOOSE i \in spaces : \A k \in spaces : i <= k
           IN  <<SubSeq(s, 1, i - 1)>> \o Split(SubSeq(s, i + 1, Len(s)))

----------------------------------------------------------------------------
(* Bytes written by a child process, and the text decoded from them.       *)
(* A run [chunk, n] is the chunk repeated n times.  The chunks: the ASCII  *)
(* bytes "a" and "b", the two bytes C3 A9 of the character U+00E9, and the *)
(* byte FF, which no UTF-8 text contains.  Adjacent runs hold different    *)
(* chunks, so equal byte strings have equal encodings.                     *)

ValidChunks == {"a", "b", "C3A9"}
Chunks == ValidChunks \cup {"FF"}

Width(chunk) == IF chunk = "C3A9" THEN 2 ELSE 1

Run(chunk, n) == [chunk |-> chunk, n |-> n]

RECURSIVE ByteLen(_)
\* Vec<u8>::len
ByteLen(bytes) ==
  IF bytes = <<>> THEN 0
  ELSE Head(bytes).n * Width(Head(bytes).chunk) + ByteLen(Tail(bytes))

\* Vec<u8>::extend: a followed by b
Extend(a, b) ==
  IF a = <<>> THEN b
  ELSE IF b = <<>> THEN a
  ELSE IF a[Len(a)].chunk = Head(b).chunk
       THEN SubSeq(a, 1, Len(a) - 1)
              \o <<Run(Head(b).chunk, a[Len(a)].n + Head(b).n)>> \o Tail(b)
       ELSE a \o b

\* whether String::from_utf8 accepts the bytes
IsUtf8(bytes) == \A i \in 1..Len(bytes) : bytes[i].chunk \in ValidChunks

\* A String: a literal (ASCII) part followed by decoded output.
Text(lit, runs) == [lit |-> lit, runs |-> runs]

\* String::default()
EmptyText == Text("", <<>>)

\* String::from_utf8(bytes).unwrap_or_default()
FromUtf8OrDefault(bytes) == IF IsUtf8(bytes) THEN Text("", bytes) ELSE EmptyText

\* String::len, in bytes
TextLen(t) == Len(t.lit) + ByteLen(t.runs)

RECURSIVE RunsBoundary(_, _)
\* whether byte offset idx of the decoded runs is between two characters
RunsBoundary(runs, idx) ==
  IF idx = 0 \/ runs = <<>> THEN idx = 0
  ELSE LET w == Width(Head(runs).chunk)
           size == Head(runs).n * w
       IN  IF idx <= size THEN idx % w = 0
           ELSE RunsBoundary(Tail(runs), idx - size)

\* str::is_char_boundary
IsCharBoundary(t, idx) ==
  \/ idx <= Len(t.lit)
  \/ idx = TextLen(t)
  \/ /\ idx < TextLen(t)
     /\ RunsBoundary(t.runs, idx - Len(t.lit))

RECURSIVE TakeBytes(_, _)
\* the first k bytes of the runs, k on a character boundary
TakeBytes(runs, k) ==
  IF k = 0 \/ runs = <<>> THEN <<>>
  ELSE LET w == Width(Head(runs).chunk)
           size == Head(runs).n * w
       IN  IF k < size THEN <<Run(Head(runs).chunk, k \div w)>>
           ELSE <<Head(runs)>> \o TakeBytes(Tail(runs), k - size)

\* String::truncate(new_len) panics unless new_len is on a character boundary
TruncatePanics(t, new_len) ==
  new_len <= TextLen(t) /\ ~IsCharBoundary(t, new_len)

\* String::truncate(new_len) where it does not panic
Truncate(t, new_len) ==
  IF new_len > TextLen(t) THEN t
  ELSE IF new_len <= Len(t.lit) THEN Text(SubSeq(t.lit, 1, new_len), <<>>)
  ELSE Text(t.lit, TakeBytes(t.runs, new_len - Len(t.lit)))

\* limit return message size to 1MB
MESSAGE_LIMIT == 1048576

----------------------------------------------------------------------------
(* Values.                                                                 *)

\* Option<T>: None is <<>>, Some(v) is <<v>>
None == <<>>
Some(v) == <<v>>

\* Result<String, String>
Ok(t) == [ok |-> TRUE, text |-> t]
Err(t) == [ok |-> FALSE, text |-> t]

\* JobResult::new(job_id)
NewJobResult(job_id) == [job_id |-> job_id, status |-> "Unknown", message |-> None]

with_status(r, status) == [r EXCEPT !.status = status]
with_message(r, message) == [r EXCEPT !.message = Some(message)]

NoChild == [state |-> "none", program |-> "", args |-> <<>>, cwd |-> None]

MISSING_EXECUTABLE == "missing executable in the command line template"

\* format!("An error occurred process command: {}.\n{:?}", command, error)
SpawnErrorMessage(command, error) ==
  "An error occurred process command: " \o command \o ".\n" \o error

\* the {:?} of the io::Error of a program that cannot be started
OS_ERROR == "Os { code: 2, kind: NotFound, message: \"No such file or directory\" }"

\* the message of the missing mandatory parameter
MISSING_PARAMETER == "missing parameter: " \o COMMAND_TEMPLATE_IDENTIFIER

----------------------------------------------------------------------------
(* The inputs of the model.                                                *)

RECURSIVE Concat(_)
Concat(q) == IF q = <<>> THEN "" ELSE Head(q) \o Concat(Tail(q))

SeqsUpTo(S, n) == UNION {[1..k -> S] : k \in 0..n}

\* the maps over subsets of the keys of allowed, allowed[k] the values of k
MapsOf(allowed) ==
  UNION {{m \in [K -> UNION {allowed[k] : k \in K}] : \A k \in K : m[k] \in allowed[k]}
           : K \in SUBSET (DOMAIN allowed)}

\* Templates of the compiler: up to MaxTemplateSegs pieces, each a brace, a
\* placeholder.
TemplateSegs ==
  {"{", "}", "{a}", "{b}",
   Placeholder(EXECUTION_DIRECTORY_PARAMETER),
   Placeholder(COMMAND_TEMPLATE_IDENTIFIER)}

CompilerTemplates == {Concat(q) : q \in SeqsUpTo(TemplateSegs, MaxTemplateSegs)}

CompilerMaps ==
  MapsOf([k \in {"a", "b", EXECUTION_DIRECTORY_PARAMETER, COMMAND_TEMPLATE_IDENTIFIER} |->
            CASE k = "a" -> {"x", "{b}"}
              [] k = "b" -> {"a"}
              [] k = EXECUTION_DIRECTORY_PARAMETER -> {"./src"}
              [] OTHER -> {"x {a}"}])

CompilerParams ==
  [command_template : {Some(t) : t \in CompilerTemplates},
   exec_dir : {None},
   parameters : CompilerMaps]

\* Jobs of the worker.
JobParams ==
  [command_template : {None, Some(""), Some(" "), Some("ls"), Some("ls {path}")},
   exec_dir : {None, Some("./src")},
   parameters : MapsOf([k \in {"path"} |-> {"."}])]

\* what a child writes: up to MaxRuns runs of these lengths
RunLens == {1, MESSAGE_LIMIT - 1, MESSAGE_LIMIT}

BytesOf(chunks, maxRuns) ==
  {b \in SeqsUpTo([chunk : chunks, n : RunLens], maxRuns) :
     \A i \in 1..(Len(b) - 1) : b[i].chunk # b[i + 1].chunk}

NoOutput == [spawn_ok |-> FALSE, success |-> FALSE, stdout |-> <<>>, stderr |-> <<>>]

OsBehaviours ==
  {NoOutput} \cup
  [spawn_ok : {TRUE}, success : BOOLEAN,
   stdout : BytesOf({"a", "C3A9", "FF"}, MaxRuns),
   stderr : {<<>>, <<Run("b", 1)>>, <<Run("FF", 1)>>}]

\* Jobs processed concurrently.
ConcurrentParams ==
  [command_template : {Some("ls {path}")},
   exec_dir : {None, Some("./src")},
   parameters : {[k \in {"path"} |-> "."]}]

ConcurrentOs ==
  {NoOutput,
   [spawn_ok |-> TRUE, success |-> TRUE, stdout |-> <<Run("a", 1)>>, stderr |-> <<>>],
   [spawn_ok |-> TRUE, success |-> FALSE, stdout |-> <<Run("a", 1)>>,
    stderr |-> <<Run("b", 1)>>]}

JobId(j) == 122 + j

----------------------------------------------------------------------------
(* The state after construction.                                           *)

\* jobs J received, their parameters drawn from P, the behaviour of the
\* operating system drawn from O
Received(J, P, O) ==
  /\ jobs = J
  /\ params \in [J -> P]
  /\ os \in [J -> O]
  /\ pc = [j \in J |-> "Received"]
  /\ compiled = [j \in J |-> ""]
  /\ pending = [j \in J |-> {}]
  /\ visited = [j \in J |-> <<>>]
  /\ spawns = [j \in J |-> 0]
  /\ child = [j \in J |-> NoChild]
  /\ output = [j \in J |-> None]
  /\ launch_result = [j \in J |-> None]
  /\ job_result = [j \in J |-> NewJobResult(JobId(j))]
  /\ returned = [j \in J |-> None]

\* one job, handed to the worker
Init == Received({1}, JobParams, OsBehaviours)

\* compile_command_template called on its own, as the unit tests call it
InitCompile ==
  /\ jobs = {1}
  /\ params \in [jobs -> CompilerParams]
  /\ os = [j \in jobs |-> NoOutput]
  /\ pc = [j \in jobs |-> "Compiling"]
  /\ compiled = [j \in jobs |-> params[j].command_template[1]]
  /\ pending = [j \in jobs |-> DOMAIN params[j].parameters]
  /\ visited = [j \in jobs |-> <<>>]
  /\ spawns = [j \in jobs |-> 0]
  /\ child = [j \in jobs |-> NoChild]
  /\ output = [j \in jobs |-> None]
  /\ launch_result = [j \in jobs |-> None]
  /\ job_result = [j \in jobs |-> NewJobResult(JobId(j))]
  /\ returned = [j \in jobs |-> None]

----------------------------------------------------------------------------
(* The worker's parameter check, before process is called.                 *)

\* a worker that hands every job to process, the template taken as it comes
GetParametersUnchecked(j) ==
  /\ pc[j] = "Received"
  /\ pc' = [pc EXCEPT ![j] = "Processing"]
  /\ UNCHANGED <<jobs, params, os, compiled, pending, visited, spawns, child,
                 output, launch_result, job_result, returned>>

GetParameters(j) ==
  /\ pc[j] = "Received"
  /\ IF params[j].command_template = None
     THEN /\ pc' = [pc EXCEPT ![j] = "Error"]
          /\ returned' = [returned EXCEPT ![j] =
               Some([ok |-> FALSE,
                     job_result |-> with_message(with_status(job_result[j], "Error"),
                                                 Text(MISSING_PARAMETER, <<>>))])]
     ELSE /\ pc' = [pc EXCEPT ![j] = "Processing"]
          /\ UNCHANGED returned
  /\ UNCHANGED <<jobs, params, os, compiled, pending, visited, spawns, child,
                 output, launch_result, job_result>>

----------------------------------------------------------------------------
(* process and compile_command_template.                                   *)

\* process calls compile_command_template, which starts from the template
ProcessCall(j) ==
  /\ pc[j] = "Processing"
  /\ pc' = [pc EXCEPT ![j] = "Compiling"]
  /\ compiled' = [compiled EXCEPT ![j] = params[j].command_template[1]]
  /\ pending' = [pending EXCEPT ![j] = DOMAIN params[j].parameters]
  /\ visited' = [visited EXCEPT ![j] = <<>>]
  /\ UNCHANGED <<jobs, params, os, spawns, child, output, launch_result,
                 job_result, returned>>

\* a filter that forgets exec_dir
FilterTemplateOnly(key) == key # COMMAND_TEMPLATE_IDENTIFIER

\* .filter(|(key, _value)| !INTERNAL_PARAM_IDENTIFIERS.contains(&key.as_str()))
Filter(key) == key \notin INTERNAL_PARAM_IDENTIFIERS

\* the body of for_each for one entry of the map
Substitute(template, key, value) == Replace(template, Placeholder(key), value)

\* param_map.iter() yields the entry of key: HashMap fixes no order, so any
\* key not yet yielded may come next
VisitKey(j, key) ==
  /\ pc[j] = "Compiling"
  /\ key \in pending[j]
  /\ pending' = [pending EXCEPT ![j] = @ \ {key}]
  /\ visited' = [visited EXCEPT ![j] = Append(@, key)]
  /\ compiled' = [compiled EXCEPT ![j] =
       IF Filter(key) THEN Substitute(@, key, params[j].parameters[key]) ELSE @]
  /\ UNCHANGED <<jobs, params, os, pc, spawns, child, output, launch_result,
                 job_result, returned>>

\* compile_command_template returns to process, which calls launch
CompileReturn(j) ==
  /\ pc[j] = "Compiling"
  /\ pending[j] = {}
  /\ pc' = [pc EXCEPT ![j] = "Launching"]
  /\ UNCHANGED <<jobs, params, os, compiled, pending, visited, spawns, child,
                 output, launch_result, job_result, returned>>

----------------------------------------------------------------------------
(* launch.                                                                 *)

\* whether the operating system starts the program: never one with no name
SpawnSucceeds(j, program) == program # "" /\ os[j].spawn_ok

\* launch up to Command::output: the command is split, the program started
Launch(j) ==
  /\ pc[j] = "Launching"
  /\ LET command == compiled[j]
         splitted_command == Split(command)
     IN  IF splitted_command = <<>>
         THEN /\ launch_result' = [launch_result EXCEPT ![j] =
                   Some(Err(Text(MISSING_EXECUTABLE, <<>>)))]
              /\ pc' = [pc EXCEPT ![j] = "Failed"]
              /\ UNCHANGED <<spawns, child>>
         ELSE LET program == Head(splitted_command)
                  args == Tail(splitted_command)
              IN  /\ spawns' = [spawns EXCEPT ![j] = @ + 1]
                  /\ IF SpawnSucceeds(j, program)
                     THEN /\ child' = [child EXCEPT ![j] =
                               [state |-> "running", program |-> program,
                                args |-> args, cwd |-> params[j].exec_dir]]
                          /\ pc' = [pc EXCEPT ![j] = "Waiting"]
                          /\ UNCHANGED launch_result
                     ELSE /\ launch_result' = [launch_result EXCEPT ![j] =
                               Some(Err(Text(SpawnErrorMessage(command, OS_ERROR), <<>>)))]
                          /\ pc' = [pc EXCEPT ![j] = "Failed"]
                          /\ UNCHANGED child
  /\ UNCHANGED <<jobs, params, os, compiled, pending, visited, output,
                 job_result, returned>>

\* the child runs to its end
ChildExit(j) ==
  /\ child[j].state = "running"
  /\ child' = [child EXCEPT ![j].state = "exited"]
  /\ UNCHANGED <<jobs, params, os, pc, compiled, pending, visited, spawns,
                 output, launch_result, job_result, returned>>

\* the message of a failed child: stderr, then stdout
FailureBytes(out) == Extend(out.stderr, out.stdout)

\* what launch makes of the Output of its child
Classify(out) ==
  IF out.success THEN Ok(FromUtf8OrDefault(out.stdout))
  ELSE Err(FromUtf8OrDefault(FailureBytes(out)))

\* a launch that starts its child and reads what is there without waiting
LaunchReturnNoWait(j) ==
  /\ pc[j] = "Waiting"
  /\ LET out == [success |-> os[j].success, stdout |-> os[j].stdout,
                 stderr |-> os[j].stderr]
     IN  /\ output' = [output EXCEPT ![j] = Some(out)]
         /\ launch_result' = [launch_result EXCEPT ![j] = Some(Classify(out))]
         /\ pc' = [pc EXCEPT ![j] = IF Classify(out).ok THEN "Succeeded" ELSE "Failed"]
  /\ UNCHANGED <<jobs, params, os, compiled, pending, visited, spawns, child,
                 job_result, returned>>

\* Command::output returns once the child has exited, and launch returns
LaunchReturn(j) ==
  /\ pc[j] = "Waiting"
  /\ child[j].state = "exited"
  /\ LET out == [success |-> os[j].success, stdout |-> os[j].stdout,
                 stderr |-> os[j].stderr]
     IN  /\ output' = [output EXCEPT ![j] = Some(out)]
         /\ launch_result' = [launch_result EXCEPT ![j] = Some(Classify(out))]
         /\ pc' = [pc EXCEPT ![j] = IF Classify(out).ok THEN "Succeeded" ELSE "Failed"]
  /\ UNCHANGED <<jobs, params, os, compiled, pending, visited, spawns, child,
                 job_result, returned>>

----------------------------------------------------------------------------
(* process, after launch.                                                  *)

\* launch failed: map_err and ?
ProcessError(j) ==
  /\ pc[j] = "Failed"
  /\ returned' = [returned EXCEPT ![j] =
       Some([ok |-> FALSE,
             job_result |-> with_message(with_status(job_result[j], "Error"),
                                         launch_result[j][1].text)])]
  /\ pc' = [pc EXCEPT ![j] = "Error"]
  /\ UNCHANGED <<jobs, params, os, compiled, pending, visited, spawns, child,
                 output, launch_result, job_result>>

\* launch succeeded: the result is truncated and attached
ProcessCompleted(j) ==
  /\ pc[j] = "Succeeded"
  /\ LET result == launch_result[j][1].text
     IN  IF TruncatePanics(result, MESSAGE_LIMIT)
         THEN /\ pc' = [pc EXCEPT ![j] = "Panicked"]
              /\ UNCHANGED returned
         ELSE /\ returned' = [returned EXCEPT ![j] =
                   Some([ok |-> TRUE,
                         job_result |-> with_message(
                            with_status(job_result[j], "Completed"),
                            Truncate(result, MESSAGE_LIMIT))])]
              /\ pc' = [pc EXCEPT ![j] = "Completed"]
  /\ UNCHANGED <<jobs, params, os, compiled, pending, visited, spawns, child,
                 output, launch_result, job_result>>

----------------------------------------------------------------------------
(* The specifications.                                                     *)

Next ==
  \/ \E j \in jobs : GetParameters(j)
  \/ \E j \in jobs : ProcessCall(j)
  \/ \E j \in jobs : \E key \in pending[j] : VisitKey(j, key)
  \/ \E j \in jobs : CompileReturn(j)
  \/ \E j \in jobs : Launch(j)
  \/ \E j \in jobs : ChildExit(j)
  \/ \E j \in jobs : LaunchReturn(j)
  \/ \E j \in jobs : ProcessError(j)
  \/ \E j \in jobs : ProcessCompleted(j)

Spec == Init /\ [][Next]_vars

\* the worker runs a job it was handed, and the child it waits for exits
FairSpec == Spec /\ WF_vars(Next)

NextCompile == \E j \in jobs : \E key \in pending[j] : VisitKey(j, key)

SpecCompile == InitCompile /\ [][NextCompile]_vars

\* NumJobs jobs handed to the worker at once, each invocation on its own thread
InitConcurrent == Received(1..NumJobs, ConcurrentParams, ConcurrentOs)

ConcurrentSpec == InitConcurrent /\ [][Next]_vars

----------------------------------------------------------------------------
(* The template compiler (SpecCompile).                                    *)

RECURSIVE CompileInOrder(_, _, _)
\* compile_command_template when param_map.iter() yields the keys in order
CompileInOrder(template, param_map, order) ==
  IF order = <<>> THEN template
  ELSE LET key == Head(order)
       IN  CompileInOrder(
             IF Filter(key) THEN Substitute(template, key, param_map[key]) ELSE template,
             param_map, Tail(order))

ReservedKeys == {"command_template", "exec_dir"}

WithoutKeys(map, keys) == [k \in (DOMAIN map) \ keys |-> map[k]]

Contains(s, pat) == \E i \in 1..Len(s) : MatchAt(s, pat, i)

SkipKeys(order, keys) ==
  LET Test(k) == k \notin keys IN SelectSeq(order, Test)

Compiled(j) == pc[j] = "Compiling" /\ pending[j] = {}

\* the orders in which the keys of K can be visited
Orders(K) ==
  {o \in [1..Cardinality(K) -> K] : \A a, b \in DOMAIN o : a # b => o[a] # o[b]}

RECURSIVE Simultaneous(_, _, _)
\* the template from position i on, each placeholder of a non-reserved key of
\* the map replaced by the key's value, the text of the values not looked at
\* again, all other text kept
Simultaneous(template, map, i) ==
  IF i > Len(template) THEN ""
  ELSE LET here == {k \in (DOMAIN map) \ ReservedKeys :
                      MatchAt(template, "{" \o k \o "}", i)}
       IN  IF here = {}
           THEN SubSeq(template, i, i) \o Simultaneous(template, map, i + 1)
           ELSE LET k == CHOOSE k \in here : TRUE
                IN  map[k] \o Simultaneous(template, map, i + Len(k) + 2)

NoBraces(s) == ~Contains(s, "{") /\ ~Contains(s, "}")

\* C1: the reserved keys command_template and exec_dir are never substituted:
\* whatever the template, the map and the order in which the map is visited,
\* the compiled command is the one compiled from the map with one or both of
\* the reserved keys removed, the other keys visited in the same order.
C1_ReservedNeverSubstituted ==
  \A j \in jobs :
    Compiled(j) =>
      \A R \in (SUBSET (ReservedKeys \cap DOMAIN params[j].parameters)) \ {{}} :
        compiled[j] = CompileInOrder(params[j].command_template[1],
                                     WithoutKeys(params[j].parameters, R),
                                     SkipKeys(visited[j], R))

\* a compilation is over whose map holds both reserved keys and another key
\* that was substituted, and whose template holds the placeholders of both
\* reserved keys, still there in the result
C1_Witness ==
  \E j \in jobs :
    /\ Compiled(j)
    /\ ReservedKeys \subseteq DOMAIN params[j].parameters
    /\ Contains(params[j].command_template[1], "{exec_dir}")
    /\ Contains(params[j].command_template[1], "{command_template}")
    /\ Contains(compiled[j], "{exec_dir}")
    /\ Contains(compiled[j], "{command_template}")
    /\ compiled[j] # params[j].command_template[1]

\* C2: when no value of the map holds a brace, the compiled command is the
\* template with every occurrence of {key}, for each non-reserved key of the
\* map, replaced by the key's value and all other text unchanged.
C2_AllOccurrencesReplaced ==
  \A j \in jobs :
    (/\ Compiled(j)
     /\ \A k \in DOMAIN params[j].parameters : NoBraces(params[j].parameters[k]))
    => compiled[j] = Simultaneous(params[j].command_template[1],
                                  params[j].parameters, 1)

\* C3: the compiled command is the same for every order in which the keys of
\* the map are visited, and a placeholder that appears only inside a
\* substituted value is left literal.
C3_OrderIndependent ==
  \A j \in jobs :
    Compiled(j) =>
      /\ \A o \in Orders(DOMAIN params[j].parameters) :
           compiled[j] = CompileInOrder(params[j].command_template[1],
                                        params[j].parameters, o)
      /\ compiled[j] = Simultaneous(params[j].command_template[1],
                                    params[j].parameters, 1)

----------------------------------------------------------------------------
(* The launcher and the result of process (Spec).                          *)

IsBlank(s) == \A i \in 1..Len(s) : SubSeq(s, i, i) = " "

LaunchReturned(j) == launch_result[j] # None

ProcessReturned(j) == returned[j] # None

\* C4: launch called with an empty or whitespace-only command returns the
\* "missing executable" error and has made no attempt to start a process.
C4_BlankCommandNotSpawned ==
  \A j \in jobs :
    (LaunchReturned(j) /\ IsBlank(compiled[j])) =>
      /\ launch_result[j][1] = Err(Text(MISSING_EXECUTABLE, <<>>))
      /\ spawns[j] = 0

RECURSIVE RunsPrefix(_, _)
\* the bytes of p are the first bytes of those of t
RunsPrefix(p, t) ==
  \/ p = <<>>
  \/ /\ t # <<>>
     /\ Head(p).chunk = Head(t).chunk
     /\ \/ Head(p).n = Head(t).n /\ RunsPrefix(Tail(p), Tail(t))
        \/ Head(p).n < Head(t).n /\ Len(p) = 1

\* C5: once launch has succeeded and process has gone on, process has returned
\* a Completed result whose message is the captured text when that is at most
\* 1,048,576 bytes long and its first 1,048,576 bytes when it is longer; the
\* job is never aborted.
C5_SuccessMessageTruncated ==
  \A j \in jobs :
    (LaunchReturned(j) /\ launch_result[j][1].ok /\ pc[j] # "Succeeded") =>
      /\ ProcessReturned(j)
      /\ returned[j][1].ok
      /\ returned[j][1].job_result.status = "Completed"
      /\ LET captured == launch_result[j][1].text
             message == returned[j][1].job_result.message[1]
         IN  IF TextLen(captured) <= 1048576
             THEN message = captured
             ELSE /\ TextLen(message) = 1048576
                  /\ message.lit = captured.lit
                  /\ RunsPrefix(message.runs, captured.runs)

RECURSIVE ValidPortions(_)
\* the bytes that are valid text, in their order
ValidPortions(bytes) ==
  IF bytes = <<>> THEN <<>>
  ELSE IF Head(bytes).chunk \in ValidChunks
       THEN Extend(<<Head(bytes)>>, ValidPortions(Tail(bytes)))
       ELSE ValidPortions(Tail(bytes))

\* C6: bytes that are not valid text are replaced, the rest is kept: after a
\* successful exit launch returns Ok with a text that holds the valid portions
\* of stdout, after a failed exit Err with a text that holds the valid
\* portions of stderr followed by stdout.
C6_InvalidBytesReplaced ==
  \A j \in jobs :
    (LaunchReturned(j) /\ output[j] # None) =>
      LET out == output[j][1]
          res == launch_result[j][1]
      IN  IF out.success
          THEN res.ok /\ ValidPortions(res.text.runs) = ValidPortions(out.stdout)
          ELSE ~res.ok /\ ValidPortions(res.text.runs) =
                            ValidPortions(out.stderr \o out.stdout)

\* C7: launch returns Ok exactly when its child was started and exited with
\* success; when the child failed, launch returns Err with the bytes of stderr
\* followed by those of stdout, and process returns an Error result with that
\* text, not truncated.
C7_ExitClassification ==
  \A j \in jobs :
    LaunchReturned(j) =>
      LET res == launch_result[j][1]
      IN  /\ res.ok <=> (child[j].state = "exited" /\ os[j].success)
          /\ (child[j].state = "exited" /\ ~os[j].success) =>
               /\ res = Err(Text("", Extend(os[j].stderr, os[j].stdout)))
               /\ ProcessReturned(j) =>
                    /\ returned[j][1].job_result.status = "Error"
                    /\ returned[j][1].job_result.message =
                         Some(Text("", Extend(os[j].stderr, os[j].stdout)))

\* C8: a job without command_template ends, before anything is compiled or
\* launched, with an Error result whose message names the parameter; no child
\* process is started.
C8_MissingTemplateShortCircuits ==
  \A j \in jobs :
    (params[j].command_template = None /\ pc[j] # "Received") =>
      /\ pc[j] = "Error"
      /\ ProcessReturned(j)
      /\ ~returned[j][1].ok
      /\ returned[j][1].job_result.status = "Error"
      /\ Contains(returned[j][1].job_result.message[1].lit, "command_template")
      /\ visited[j] = <<>> /\ compiled[j] = ""
      /\ ~LaunchReturned(j)
      /\ spawns[j] = 0
      /\ child[j].state = "none"

\* a job without command_template has been answered
C8_Witness ==
  \E j \in jobs :
    /\ params[j].command_template = None
    /\ pc[j] = "Error"
    /\ ProcessReturned(j)

----------------------------------------------------------------------------
(* The life of a job (FairSpec) and concurrent jobs (ConcurrentSpec).      *)

Terminal == {"Completed", "Error"}

\* the states of a job: Processing is Received with process entered, Waiting
\* is Launching with the child started
JobStates ==
  {"Received", "Processing", "Compiling", "Launching", "Waiting",
   "Succeeded", "Failed"} \cup Terminal

\* the moves of a job
JobMoves ==
  {<<"Received", "Processing">>, <<"Received", "Error">>,
   <<"Processing", "Compiling">>, <<"Compiling", "Compiling">>,
   <<"Compiling", "Launching">>, <<"Launching", "Waiting">>,
   <<"Launching", "Failed">>, <<"Waiting", "Waiting">>,
   <<"Waiting", "Succeeded">>, <<"Waiting", "Failed">>,
   <<"Succeeded", "Completed">>, <<"Failed", "Error">>}

\* a job is in a state of the machine, and has its one result exactly when
\* it is in a terminal state
C9_States ==
  \A j \in jobs :
    /\ pc[j] \in JobStates
    /\ ProcessReturned(j) <=> pc[j] \in Terminal
    /\ ProcessReturned(j) =>
         /\ returned[j][1].job_result.job_id = job_result[j].job_id
         /\ returned[j][1].job_result.status = pc[j]
         /\ returned[j][1].job_result.message # None
         /\ returned[j][1].ok <=> pc[j] = "Completed"

\* a job moves along the machine; a terminal state and a result stay
C9_Moves ==
  \A j \in jobs :
    /\ pc'[j] # pc[j] => <<pc[j], pc'[j]>> \in JobMoves
    /\ pc[j] \in Terminal => pc'[j] = pc[j]
    /\ ProcessReturned(j) => returned'[j] = returned[j]
    /\ job_result'[j] = job_result[j]

\* C9: a job moves Received -> Compiling -> Launching -> Succeeded or Failed
\* and, its child exiting, ends in exactly one of Completed and Error, reached
\* from Succeeded and from a failure; the status and message of the result are
\* set once, with the job identifier unchanged, and nothing leaves a terminal
\* state.
C9_JobStateMachine ==
  /\ []C9_States
  /\ [][C9_Moves]_vars
  /\ <>(\A j \in jobs : pc[j] \in Terminal)

\* what holds of an invocation of launch and of its child at every moment
C10_States ==
  \A j \in jobs :
    /\ spawns[j] <= 1
    /\ child[j].state # "none" => spawns[j] = 1
    /\ LaunchReturned(j) =>
         /\ spawns[j] = 1
         /\ child[j].state # "running"
         /\ child[j].state = "exited" =>
              /\ output[j] = Some([success |-> os[j].success,
                                   stdout |-> os[j].stdout,
                                   stderr |-> os[j].stderr])
              /\ launch_result[j][1].ok = os[j].success
              /\ launch_result[j][1].text.runs =
                   IF os[j].success THEN os[j].stdout
                   ELSE Extend(os[j].stderr, os[j].stdout)
         /\ child[j].state = "none" => ~launch_result[j][1].ok

Local(j) ==
  <<pc[j], compiled[j], pending[j], visited[j], spawns[j], child[j],
    output[j], launch_result[j], job_result[j], returned[j]>>

\* every step belongs to one invocation and leaves the others as they are
C10_Steps ==
  \E j \in jobs : \A i \in jobs \ {j} : Local(i)' = Local(i)

\* C10: an invocation of launch starts at most one child and has called
\* Command::output exactly once when it returns; it does not return while its
\* child runs and leaves no child running; the Output it collects and the
\* result it returns are those of its own child, and no step of an invocation
\* changes anything of another.
C10_OneChildAwaited == []C10_States /\ [][C10_Steps]_vars

\* two invocations at once: one has returned from launch with the output of
\* its exited child while the child of the other still runs
C10_Witness ==
  \E i, j \in jobs :
    /\ i # j
    /\ LaunchReturned(i) /\ child[i].state = "exited" /\ output[i] # None
    /\ child[j].state = "running"
    /\ os[i] # os[j]

====
